---- MODULE Spec2Model ----
(***************************************************************************)
(* RCSModbusClient (src/src/client/rcs_modbus_client.py) and its runner    *)
(* main (src/main.py), as a state machine.                                 *)
(*                                                                         *)
(* Every method of the client is a straight-line sequence of statements;   *)
(* each statement that talks to the Modbus handle is one step of the       *)
(* machine, so that a failure of the transport between two register        *)
(* writes, and the order of the writes, are visible.  The pymodbus handle  *)
(* is the environment: every request ends in one of the outcomes pymodbus  *)
(* can produce (a normal response, a returned error result, a raised       *)
(* exception), chosen nondeterministically.                                *)
(***************************************************************************)
EXTENDS Integers, Sequences, FiniteSets, TLC

\* ------------------------------------------------------------------ bounds

\* Transport faults (outcomes other than a normal response) per run.
MaxFaults == 2

\* ------------------------------------------------------------- the values

\* A 32-bit float: sign bit s, biased exponent e (8 bits), fraction m (23 bits).
F32(s, e, m) == [s |-> s, e |-> e, m |-> m]

Half == F32(0, 126, 0)          \*    0.5
MinusOne == F32(1, 127, 0)      \*   -1.0
Milli == F32(0, 117, 201327)    \*    0.001 (nearest float32)
Far == F32(0, 134, 7995392)     \*  250.0
Zero == F32(0, 0, 0)            \*    0.0

\* The Cartesian points the callers and the calibration section use.
Points == { <<Half, MinusOne, Far>>, <<Milli, Zero, MinusOne>> }

\* Program ids a caller passes to start_program.
ProgramIds == {1, 2}

\* Status words the controller answers a read of status_word with.
StatusWords == {0, 1, 6, 255, 65535}

\* The float32 values the codec is exercised on: both signs, zero, subnormal,
\* normal, infinite and quiet NaN patterns.  (A Python float cannot hold a
\* signalling float32 NaN: the conversion to double quiets it.)
F32Samples ==
    { F32(s, e, m) :
        s \in {0, 1},
        e \in {0, 1, 117, 126, 127, 134, 254, 255},
        m \in {0, 1, 255, 256, 65535, 65536, 201327, 4194304, 7995392, 8388607} }
    \ { F32(s, 255, m) : s \in {0, 1}, m \in {1, 255, 256, 65535, 65536, 201327} }

\* struct.pack("!f", v): the four bytes of the pattern, most significant first.
PackFloat(v) ==
    << v.s * 128 + v.e \div 2,
       (v.e % 2) * 128 + v.m \div 65536,
       (v.m \div 256) % 256,
       v.m % 256 >>

\* struct.unpack("!2H", bytes): two 16-bit words, most significant first.
UnpackWords(b) == << b[1] * 256 + b[2], b[3] * 256 + b[4] >>

\* struct.pack(">H", w) and struct.unpack(">H", bytes): byteorder=Endian.BIG.
PackWord(w) == << w \div 256, w % 256 >>

UnpackWord(b) == b[1] * 256 + b[2]

\* to_registers() reading each word with the other byte order.
EncodeFloat32_byteorder_little(v) ==
    LET ws == UnpackWords(PackFloat(v))
        rs == << ws[2], ws[1] >>
    IN  [ i \in 1..2 |-> PackWord(rs[i])[2] * 256 + PackWord(rs[i])[1] ]

\* BinaryPayloadBuilder with wordorder=Endian.BIG: the words are not reversed.
EncodeFloat32_wordorder_big(v) ==
    LET ws == UnpackWords(PackFloat(v))
    IN  [ i \in 1..2 |-> UnpackWord(PackWord(ws[i])) ]

\* BinaryPayloadBuilder(byteorder=BIG, wordorder=LITTLE).add_32bit_float(v)
\* followed by to_registers(): the packed pattern is cut into two words, the
\* words are reversed (wordorder little), and each is packed and unpacked with
\* the byte order.
EncodeFloat32(v) ==
    LET ws == UnpackWords(PackFloat(v))
        rs == << ws[2], ws[1] >>
    IN  [ i \in 1..2 |-> UnpackWord(PackWord(rs[i])) ]

\* The decoder of the same convention (big-endian bytes, little-endian words):
\* the words are put back in pattern order, unpacked to four bytes, and the
\* bytes read as sign, exponent and fraction.
DecodeFloat32(words) ==
    LET hi == PackWord(words[2])
        lo == PackWord(words[1])
    IN  F32(hi[1] \div 128,
            (hi[1] % 128) * 2 + hi[2] \div 128,
            (hi[2] % 128) * 65536 + lo[1] * 256 + lo[2])

\* Python's bin(): "0b" and the binary digits, most significant first.
RECURSIVE BinDigits(_)
BinDigits(n) ==
    IF n < 2 THEN (IF n = 0 THEN "0" ELSE "1")
    ELSE BinDigits(n \div 2) \o (IF n % 2 = 0 THEN "0" ELSE "1")

\* The digits written least significant first.
RECURSIVE DigitsLsbFirst(_)
DigitsLsbFirst(n) ==
    IF n < 2 THEN (IF n = 0 THEN "0" ELSE "1")
    ELSE (IF n % 2 = 0 THEN "0" ELSE "1") \o DigitsLsbFirst(n \div 2)

bin_lsb_first(n) == "0b" \o DigitsLsbFirst(n)

bin(n) == "0b" \o BinDigits(n)

\* ------------------------------------------------------ the configuration

RegNames == { "reset_errors", "enable_drives", "program_number", "start_program",
              "target_x", "target_y", "target_z", "status_word" }

\* The register section of config.yaml: name -> address.  A float takes two
\* consecutive registers.
FullRegisters ==
    [ n \in RegNames |->
        CASE n = "reset_errors"   -> 100
          [] n = "enable_drives"  -> 101
          [] n = "program_number" -> 107
          [] n = "start_program"  -> 108
          [] n = "target_x"       -> 200
          [] n = "target_y"       -> 202
          [] n = "target_z"       -> 204
          [] n = "status_word"    -> 300 ]

Without(name) == [ n \in RegNames \ {name} |-> FullRegisters[n] ]

\* calibration.cone_positions: the three cones of the base-frame calibration.
Cones ==
    << <<Half, MinusOne, Far>>, <<Milli, Zero, MinusOne>>, <<Zero, Half, Milli>> >>

\* The files the client is constructed from: complete ones (each home
\* position, several lists of cones), ones whose register section lacks a name,
\* and one without a register section at all.
ConfigFiles ==
    { [ sections |-> TRUE, host |-> "rcs.local", port |-> 502, unit_id |-> 1,
        registers |-> FullRegisters, home_position |-> home,
        cone_positions |-> Cones ] :
          home \in Points }
    \cup
    { [ sections |-> TRUE, host |-> "rcs.local", port |-> 502, unit_id |-> 1,
        registers |-> FullRegisters, home_position |-> <<Half, MinusOne, Far>>,
        cone_positions |-> cones ] :
          cones \in { << >>, << <<Zero, Half, Milli>>, <<Half, MinusOne, Far>> >> } }
    \cup
    { [ sections |-> TRUE, host |-> "rcs.local", port |-> 502, unit_id |-> 1,
        registers |-> regs, home_position |-> <<Milli, Zero, MinusOne>>,
        cone_positions |-> Cones ] :
          regs \in { Without("status_word"), Without("start_program") } }
    \cup
    { [ sections |-> FALSE, host |-> "rcs.local", port |-> 502, unit_id |-> 1,
        registers |-> FullRegisters, home_position |-> home,
        cone_positions |-> Cones ] :
          home \in { <<Half, MinusOne, Far>> } }

\* ----------------------------------------------------------------- errors

NoError == [ type |-> "none", key |-> "", addr |-> -1, detail |-> "",
             host |-> "", port |-> -1 ]

KeyError(k) == [ NoError EXCEPT !.type = "KeyError", !.key = k ]

ConnectionError(h, p) ==
    [ NoError EXCEPT !.type = "ConnectionError", !.host = h, !.port = p ]

\* The exception pymodbus raises out of a request.
ConnectionException == [ NoError EXCEPT !.type = "ConnectionException" ]

ValueError(address, result) ==
    [ NoError EXCEPT !.type = "ValueError", !.addr = address, !.detail = result ]

\* What input() raises when the operator's input has ended.
EOFError == [ NoError EXCEPT !.type = "EOFError" ]

UnboundLocalError(k) == [ NoError EXCEPT !.type = "UnboundLocalError", !.key = k ]

\* ------------------------------------------------------------ the methods

\* The statements a method body is made of.
WriteInt(reg, val) == [ k |-> "write_int", reg |-> reg, val |-> val ]
WriteFloat(reg, val) == [ k |-> "write_float", reg |-> reg, val |-> val ]
ReadInt(reg) == [ k |-> "read_int", reg |-> reg ]
Sleep == [ k |-> "sleep" ]
Call(fn, args) == [ k |-> "call", fn |-> fn, args |-> args ]
LoadConfig == [ k |-> "load_config" ]
NewClient == [ k |-> "new_client" ]
Connect == [ k |-> "connect" ]
CloseClient == [ k |-> "close_client" ]
ReturnStatus == [ k |-> "return_status" ]
Prompt(i, point) == [ k |-> "prompt", cone |-> i, point |-> point ]

\* __init__: load the file, build the ModbusTcpClient, connect.
__init__ == << LoadConfig, NewClient, Call("_connect", << >>) >>

_connect == << Connect >>

\* reset_errors that never releases the trigger.
reset_errors_held == << WriteInt("reset_errors", 1), Sleep >>

reset_errors ==
    << WriteInt("reset_errors", 1), Sleep, WriteInt("reset_errors", 0) >>

\* enable_drives written as a pulse, like the trigger registers.
enable_drives_pulsed ==
    << WriteInt("enable_drives", 1), Sleep, WriteInt("enable_drives", 0) >>

enable_drives == << WriteInt("enable_drives", 1) >>

\* start_program with the trigger raised before the number is written.
start_program_trigger_first(program_id) ==
    << WriteInt("start_program", 1),
       WriteInt("program_number", program_id),
       Sleep,
       WriteInt("start_program", 0) >>

start_program(program_id) ==
    << WriteInt("program_number", program_id),
       WriteInt("start_program", 1),
       Sleep,
       WriteInt("start_program", 0) >>

\* move_to_xyz that starts the program before the last coordinate is written.
move_to_xyz_early_start(x, y, z) ==
    << WriteFloat("target_x", x),
       WriteFloat("target_y", y),
       Call("start_program", <<1>>),
       WriteFloat("target_z", z) >>

move_to_xyz(x, y, z) ==
    << WriteFloat("target_x", x),
       WriteFloat("target_y", y),
       WriteFloat("target_z", z),
       Call("start_program", <<1>>) >>

\* go_home with the first two coordinates taken in the wrong order.
go_home_swapped(pos) == << Call("move_to_xyz", << pos[2], pos[1], pos[3] >>) >>

\* pos = calibration['home_position']; move_to_xyz(pos[0], pos[1], pos[2])
go_home(pos) == << Call("move_to_xyz", << pos[1], pos[2], pos[3] >>) >>

\* calibrate_base that also drives the arm to each cone.
calibrate_base_moving(cones) ==
    [ i \in 1..(2 * Len(cones)) |->
        IF i % 2 = 1 THEN Call("move_to_xyz", cones[(i + 1) \div 2])
                     ELSE Prompt(i \div 2, cones[i \div 2]) ]

\* for i, point in enumerate(cone_positions): log the point, wait for Enter.
calibrate_base(cones) == [ i \in 1..Len(cones) |-> Prompt(i, cones[i]) ]

get_status == << ReadInt("status_word"), ReturnStatus >>

\* A direct call rcs._write_float(rcs.config.registers[reg], value).
write_float_call(reg, value) == << WriteFloat(reg, value) >>

close == << CloseClient >>

\* -------------------------------------------------------------- the state

VARIABLES
    mode,       \* who drives the client: "main" (src/main.py) or "api" (any caller)
    cfgfile,    \* the content of config/config.yaml
    config,     \* self.config, once _load_config has returned
    rcs,        \* the caller's variable rcs: "unbound" or "bound"
    handle,     \* self.client: "none", "created", "connected", "closed"
    connects,   \* calls of self.client.connect() so far
    call,       \* per caller: the call stack and the outcome of its command
    wire,       \* the requests put to the handle by the commands in progress or
                \* last finished, in order
    prev,       \* what the command finished before the current one did
    faults,     \* transport faults so far
    main        \* main()'s position

vars == << mode, cfgfile, config, rcs, handle, connects, call, wire, prev,
           faults, main >>

\* The callers of one client object; the second one takes part only in the
\* concurrent mode.
Callers == {1, 2}

Active == IF mode = "threads" THEN Callers ELSE {1}

NoConfig == [ loaded |-> FALSE ]

NoReturn == [ status_word |-> -1, binary |-> "" ]

NoCommand == [ fn |-> "none", args |-> << >> ]

Idle == [ stack |-> << >>, st |-> "idle", err |-> NoError, ret |-> NoReturn,
          top |-> NoCommand, console |-> << >> ]

NoPrev == [ fn |-> "none", args |-> << >>, st |-> "none", writes |-> << >> ]

MainOff == [ pc |-> "off", i |-> 0, err |-> NoError ]

Frame(fn, args) == [ fn |-> fn, args |-> args, pc |-> 1, status |-> -1 ]

\* The body of the method a frame runs.
Body(f) ==
    CASE f.fn = "__init__"      -> __init__
      [] f.fn = "_connect"      -> _connect
      [] f.fn = "reset_errors"  -> reset_errors
      [] f.fn = "enable_drives" -> enable_drives
      [] f.fn = "start_program" -> start_program(f.args[1])
      [] f.fn = "move_to_xyz"   -> move_to_xyz(f.args[1], f.args[2], f.args[3])
      [] f.fn = "go_home"       -> go_home(config.home_position)
      [] f.fn = "get_status"    -> get_status
      [] f.fn = "close"         -> close
      [] f.fn = "calibrate_base" -> calibrate_base(config.cone_positions)
      [] f.fn = "_write_float"  -> write_float_call(f.args[1], f.args[2])

Top(c) == call[c].stack[Len(call[c].stack)]

Running(c) == call[c].st = "running"

Finished(c) == call[c].st \in {"ok", "failed"}

\* The statement the caller is at, if its top frame has one left.
AtInstr(c, kind) ==
    /\ Running(c)
    /\ Top(c).pc <= Len(Body(Top(c)))
    /\ Body(Top(c))[Top(c).pc].k = kind

Instr(c) == Body(Top(c))[Top(c).pc]

\* The requests of caller c's command, in order.
Log(c) == SelectSeq(wire, LAMBDA e : e.c = c)

\* A command as the next one remembers it: its name, arguments, end and the
\* writes it issued.
Summary(c) ==
    [ fn |-> call[c].top.fn, args |-> call[c].top.args, st |-> call[c].st,
      writes |-> [ i \in 1..Len(Log(c)) |->
                     [ op |-> Log(c)[i].op, addr |-> Log(c)[i].addr,
                       vals |-> Log(c)[i].vals ] ] ]

Init ==
    /\ mode \in {"main", "api"}
    /\ cfgfile \in ConfigFiles
    /\ config = NoConfig
    /\ rcs = "unbound"
    /\ handle = "none"
    /\ connects = 0
    /\ call = [ c \in Callers |-> Idle ]
    /\ wire = << >>
    /\ prev = NoPrev
    /\ faults = 0
    /\ main = IF mode = "main" THEN [ MainOff EXCEPT !.pc = "construct" ] ELSE MainOff

\* ------------------------------------------------------- control transfer

\* The caller starts the command fn(args).
Invoke(c, fn, args) ==
    /\ call' = [ call EXCEPT ![c] =
                   [ Idle EXCEPT !.stack = << Frame(fn, args) >>, !.st = "running",
                                 !.top = [ fn |-> fn, args |-> args ] ] ]
    /\ wire' = SelectSeq(wire, LAMBDA e : e.c # c)
    /\ prev' = IF Finished(c) THEN Summary(c) ELSE prev

\* The statement is done: on to the next one of the frame.
Advance(c) ==
    call' = [ call EXCEPT ![c].stack[Len(call[c].stack)].pc = @ + 1 ]

\* No method of the client catches anything: an exception unwinds every frame
\* and ends the command.
Raise(c, e) ==
    call' = [ call EXCEPT ![c].stack = << >>, ![c].st = "failed", ![c].err = e ]

\* ---------------------------------------------------------- the transport

\* How a request to the pymodbus handle can end: a normal response; a returned
\* result whose isError() is true (the controller's exception response, or an
\* I/O error pymodbus hands back); an exception raised out of the call.
Outcomes ==
    IF faults < MaxFaults
      THEN {"ok", "exception_response", "io_error", "raise"}
      ELSE {"ok"}

IsError(out) == out \in {"exception_response", "io_error"}

\* One request on the handle, by the method on top of c's stack, with the words
\* it carries (written, or read back); closed tells whether close() had been
\* called on the handle before.
Request(c, op, address, vals, out) ==
    /\ wire' = Append(wire,
                 [ c |-> c, op |-> op, addr |-> address, vals |-> vals,
                   out |-> out, closed |-> handle = "closed",
                   by |-> [ fn |-> Top(c).fn, args |-> Top(c).args ] ])
    /\ faults' = IF out = "ok" THEN faults ELSE faults + 1

\* ----------------------------------------------------- the register codec

\* self.client.write_registers(address, payload): the result is dropped.
_write_float(c, address, value) ==
    \E out \in Outcomes :
        /\ Request(c, "write_registers", address, EncodeFloat32(value), out)
        /\ IF out = "raise" THEN Raise(c, ConnectionException) ELSE Advance(c)

\* self.client.write_register(address, value): the result is dropped.
_write_int(c, address, value) ==
    \E out \in Outcomes :
        /\ Request(c, "write_register", address, << value >>, out)
        /\ IF out = "raise" THEN Raise(c, ConnectionException) ELSE Advance(c)

\* _read_int without the isError() test: whatever came back is a value.
_read_int_unchecked(c, address) ==
    \E out \in Outcomes, word \in StatusWords :
        /\ out # "ok" => word = 0
        /\ Request(c, "read_holding_registers", address,
                   IF out = "ok" THEN << word >> ELSE << >>, out)
        /\ IF out = "raise"
             THEN Raise(c, ConnectionException)
             ELSE call' = [ call EXCEPT
                              ![c].stack[Len(call[c].stack)].status = word,
                              ![c].stack[Len(call[c].stack)].pc = @ + 1 ]

\* result = self.client.read_holding_registers(address, 1);
\* ValueError if result.isError(), else result.registers[0].
_read_int(c, address) ==
    \E out \in Outcomes, word \in StatusWords :
        /\ out # "ok" => word = 0
        /\ Request(c, "read_holding_registers", address,
                   IF out = "ok" THEN << word >> ELSE << >>, out)
        /\ CASE out = "raise" -> Raise(c, ConnectionException)
             [] IsError(out)  -> Raise(c, ValueError(address, out))
             [] out = "ok"    ->
                  call' = [ call EXCEPT
                              ![c].stack[Len(call[c].stack)].status = word,
                              ![c].stack[Len(call[c].stack)].pc = @ + 1 ]

\* ------------------------------------------------------------- statements

\* self._write_int(self.config.registers[name], value)
WriteIntStep(c) ==
    /\ AtInstr(c, "write_int")
    /\ IF Instr(c).reg \in DOMAIN config.registers
         THEN _write_int(c, config.registers[Instr(c).reg], Instr(c).val)
         ELSE Raise(c, KeyError(Instr(c).reg)) /\ UNCHANGED << wire, faults >>
    /\ UNCHANGED << mode, cfgfile, config, rcs, handle, connects, prev, main >>

\* self._write_float(self.config.registers[name], value)
WriteFloatStep(c) ==
    /\ AtInstr(c, "write_float")
    /\ IF Instr(c).reg \in DOMAIN config.registers
         THEN _write_float(c, config.registers[Instr(c).reg], Instr(c).val)
         ELSE Raise(c, KeyError(Instr(c).reg)) /\ UNCHANGED << wire, faults >>
    /\ UNCHANGED << mode, cfgfile, config, rcs, handle, connects, prev, main >>

\* status = self._read_int(self.config.registers[name])
ReadIntStep(c) ==
    /\ AtInstr(c, "read_int")
    /\ IF Instr(c).reg \in DOMAIN config.registers
         THEN _read_int(c, config.registers[Instr(c).reg])
         ELSE Raise(c, KeyError(Instr(c).reg)) /\ UNCHANGED << wire, faults >>
    /\ UNCHANGED << mode, cfgfile, config, rcs, handle, connects, prev, main >>

\* return {"status_word": status, "binary": bin(status)}
ReturnStatusStep(c) ==
    /\ AtInstr(c, "return_status")
    /\ call' = [ call EXCEPT
                   ![c].ret = [ status_word |-> Top(c).status,
                                binary |-> bin(Top(c).status) ],
                   ![c].stack[Len(call[c].stack)].pc = @ + 1 ]
    /\ UNCHANGED << mode, cfgfile, config, rcs, handle, connects, wire, prev,
                    faults, main >>

\* time.sleep(0.1)
SleepStep(c) ==
    /\ AtInstr(c, "sleep")
    /\ Advance(c)
    /\ UNCHANGED << mode, cfgfile, config, rcs, handle, connects, wire, prev,
                    faults, main >>

\* logger.info("Move TCP to cone ..."); input("Press Enter when in position..."):
\* the prompt is shown, then the operator's line is read and dropped, or the
\* input has ended.
PromptStep(c) ==
    /\ AtInstr(c, "prompt")
    /\ \E answer \in {"", "ok", "eof"} :
         LET shown == Append(call[c].console,
                             [ cone |-> Instr(c).cone, point |-> Instr(c).point ])
         IN  IF answer = "eof"
               THEN call' = [ call EXCEPT ![c].stack = << >>, ![c].st = "failed",
                                          ![c].err = EOFError,
                                          ![c].console = shown ]
               ELSE call' = [ call EXCEPT
                                ![c].stack[Len(call[c].stack)].pc = @ + 1,
                                ![c].console = shown ]
    /\ UNCHANGED << mode, cfgfile, config, rcs, handle, connects, wire, prev,
                    faults, main >>

\* A call of another method of the client.
CallStep(c) ==
    /\ AtInstr(c, "call")
    /\ call' = [ call EXCEPT
                   ![c].stack = Append(@, Frame(Instr(c).fn, Instr(c).args)) ]
    /\ UNCHANGED << mode, cfgfile, config, rcs, handle, connects, wire, prev,
                    faults, main >>

\* The end of a method body: back to the caller's next statement, or the end
\* of the command.  The constructor's return binds rcs.
ReturnStep(c) ==
    /\ Running(c)
    /\ Top(c).pc > Len(Body(Top(c)))
    /\ IF Len(call[c].stack) > 1
         THEN LET s == call[c].stack
                  n == Len(s) - 1
              IN  call' = [ call EXCEPT
                              ![c].stack = [ i \in 1..n |->
                                 IF i = n THEN [ s[i] EXCEPT !.pc = s[i].pc + 1 ]
                                          ELSE s[i] ] ]
         ELSE call' = [ call EXCEPT ![c].stack = << >>, ![c].st = "ok" ]
    /\ rcs' = IF Len(call[c].stack) = 1 /\ Top(c).fn = "__init__"
                THEN "bound" ELSE rcs
    /\ UNCHANGED << mode, cfgfile, config, handle, connects, wire, prev,
                    faults, main >>

\* self.config = self._load_config(config_path): the five sections are read,
\* the names inside the register section are not.
_load_config(c) ==
    /\ AtInstr(c, "load_config")
    /\ IF cfgfile.sections
         THEN /\ config' = [ loaded |-> TRUE, host |-> cfgfile.host,
                             port |-> cfgfile.port, unit_id |-> cfgfile.unit_id,
                             registers |-> cfgfile.registers,
                             home_position |-> cfgfile.home_position,
                             cone_positions |-> cfgfile.cone_positions ]
              /\ Advance(c)
         ELSE /\ Raise(c, KeyError("registers"))
              /\ UNCHANGED config
    /\ UNCHANGED << mode, cfgfile, rcs, handle, connects, wire, prev, faults,
                    main >>

\* self.client = ModbusTcpClient(...): no I/O yet.
NewClientStep(c) ==
    /\ AtInstr(c, "new_client")
    /\ handle' = "created"
    /\ Advance(c)
    /\ UNCHANGED << mode, cfgfile, config, rcs, connects, wire, prev, faults,
                    main >>

\* _connect that drops the result of connect().
ConnectStep_unchecked(c) ==
    /\ AtInstr(c, "connect")
    /\ connects' = connects + 1
    /\ \E connected \in BOOLEAN :
         /\ handle' = IF connected THEN "connected" ELSE handle
         /\ Advance(c)
    /\ UNCHANGED << mode, cfgfile, config, rcs, wire, prev, faults, main >>

\* if not self.client.connect(): raise ConnectionError(host:port)
ConnectStep(c) ==
    /\ AtInstr(c, "connect")
    /\ connects' = connects + 1
    /\ \E connected \in BOOLEAN :
         IF connected
           THEN handle' = "connected" /\ Advance(c)
           ELSE /\ Raise(c, ConnectionError(config.host, config.port))
                /\ UNCHANGED handle
    /\ UNCHANGED << mode, cfgfile, config, rcs, wire, prev, faults, main >>

\* self.client.close(): pymodbus drops the socket if there is one.
CloseStep(c) ==
    /\ AtInstr(c, "close_client")
    /\ handle' = "closed"
    /\ Advance(c)
    /\ UNCHANGED << mode, cfgfile, config, rcs, connects, wire, prev, faults,
                    main >>

\* ------------------------------------------------------------ the callers

\* The commands of main's second try block, in order.
MainSequence == << "reset_errors", "enable_drives", "go_home" >>

\* try: rcs = RCSModbusClient()
MainConstruct ==
    /\ main.pc = "construct"
    /\ Invoke(1, "__init__", << >>)
    /\ main' = [ main EXCEPT !.pc = "constructing" ]
    /\ UNCHANGED << mode, cfgfile, config, rcs, handle, connects, faults >>

\* except Exception as e: logger.error(...); main goes on to the second try
\* block either way.
MainConstructed ==
    /\ main.pc = "constructing"
    /\ Finished(1)
    /\ main' = [ pc |-> "try", i |-> 1, err |-> call[1].err ]
    /\ UNCHANGED << mode, cfgfile, config, rcs, handle, connects, call, wire,
                    prev, faults >>

\* rcs.reset_errors(); rcs.enable_drives(); rcs.go_home(): with rcs unbound the
\* name lookup raises, and the except clause of the block catches it.
MainCommand ==
    /\ main.pc = "try"
    /\ IF rcs = "unbound"
         THEN /\ main' = [ main EXCEPT !.pc = "finally",
                                       !.err = UnboundLocalError("rcs") ]
              /\ UNCHANGED << call, wire, prev >>
         ELSE /\ Invoke(1, MainSequence[main.i], << >>)
              /\ main' = [ main EXCEPT !.pc = "command" ]
    /\ UNCHANGED << mode, cfgfile, config, rcs, handle, connects, faults >>

\* A main whose commands each had a try block of their own: the next command is
\* issued whether or not this one raised.
MainCommandDone_continue ==
    /\ main.pc = "command"
    /\ Finished(1)
    /\ main' = IF main.i < Len(MainSequence)
                 THEN [ main EXCEPT !.pc = "try", !.i = @ + 1 ]
                 ELSE [ main EXCEPT !.pc = "model" ]
    /\ UNCHANGED << mode, cfgfile, config, rcs, handle, connects, call, wire,
                    prev, faults >>

\* The command returned: the next one; or it raised: except, then finally.
MainCommandDone ==
    /\ main.pc = "command"
    /\ Finished(1)
    /\ main' = IF call[1].st = "ok"
                 THEN IF main.i < Len(MainSequence)
                        THEN [ main EXCEPT !.pc = "try", !.i = @ + 1 ]
                        ELSE [ main EXCEPT !.pc = "model" ]
                 ELSE [ main EXCEPT !.pc = "finally", !.err = call[1].err ]
    /\ UNCHANGED << mode, cfgfile, config, rcs, handle, connects, call, wire,
                    prev, faults >>

\* time.sleep(2); model = YOLO("yolov8n.pt"): loads or raises, then finally.
MainModel ==
    /\ main.pc = "model"
    /\ \E loaded \in BOOLEAN :
         main' = [ main EXCEPT !.pc = "finally",
                     !.err = IF loaded THEN NoError
                             ELSE [ NoError EXCEPT !.type = "Exception" ] ]
    /\ UNCHANGED << mode, cfgfile, config, rcs, handle, connects, call, wire,
                    prev, faults >>

\* finally: rcs.close(): with rcs unbound the name lookup raises out of main.
MainFinally ==
    /\ main.pc = "finally"
    /\ IF rcs = "unbound"
         THEN /\ main' = [ main EXCEPT !.pc = "crashed",
                                       !.err = UnboundLocalError("rcs") ]
              /\ UNCHANGED << call, wire, prev >>
         ELSE /\ Invoke(1, "close", << >>)
              /\ main' = [ main EXCEPT !.pc = "closing" ]
    /\ UNCHANGED << mode, cfgfile, config, rcs, handle, connects, faults >>

\* cv2.destroyAllWindows(), and main returns.
MainExit ==
    /\ main.pc = "closing"
    /\ Finished(1)
    /\ main' = IF call[1].st = "ok"
                 THEN [ main EXCEPT !.pc = "done" ]
                 ELSE [ main EXCEPT !.pc = "crashed", !.err = call[1].err ]
    /\ UNCHANGED << mode, cfgfile, config, rcs, handle, connects, call, wire,
                    prev, faults >>

\* The public methods and the arguments a caller passes them.
Commands ==
    { [ fn |-> f, args |-> << >> ] :
        f \in { "reset_errors", "enable_drives", "go_home", "get_status", "close",
                "calibrate_base" } }
    \cup { [ fn |-> "start_program", args |-> << p >> ] : p \in ProgramIds }
    \cup { [ fn |-> "move_to_xyz", args |-> pt ] : pt \in Points }

\* Any other caller: constructs one client ...
ApiConstruct(c) ==
    /\ mode # "main"
    /\ rcs = "unbound"
    /\ handle = "none"
    /\ \A d \in Callers : call[d].st = "idle"
    /\ Invoke(c, "__init__", << >>)
    /\ UNCHANGED << mode, cfgfile, config, rcs, handle, connects, faults, main >>

\* ... and calls its methods, one after the other, in any order.
ApiCall(c) ==
    /\ mode # "main"
    /\ rcs = "bound"
    /\ ~Running(c)
    /\ \E cmd \in Commands : Invoke(c, cmd.fn, cmd.args)
    /\ UNCHANGED << mode, cfgfile, config, rcs, handle, connects, faults, main >>

\* ------------------------------------------------------ the specification

Next ==
    \/ MainConstruct
    \/ MainConstructed
    \/ MainCommand
    \/ MainCommandDone
    \/ MainModel
    \/ MainFinally
    \/ MainExit
    \/ \E c \in Active : ApiConstruct(c)
    \/ \E c \in Active : ApiCall(c)
    \/ \E c \in Active : _load_config(c)
    \/ \E c \in Active : NewClientStep(c)
    \/ \E c \in Active : ConnectStep(c)
    \/ \E c \in Active : WriteIntStep(c)
    \/ \E c \in Active : WriteFloatStep(c)
    \/ \E c \in Active : ReadIntStep(c)
    \/ \E c \in Active : ReturnStatusStep(c)
    \/ \E c \in Active : SleepStep(c)
    \/ \E c \in Active : CallStep(c)
    \/ \E c \in Active : ReturnStep(c)
    \/ \E c \in Active : CloseStep(c)
    \/ \E c \in Active : PromptStep(c)

Spec == Init /\ [][Next]_vars

\* ---------------------------------------------- the codec, called directly

\* A connected client built from a complete file.
Constructed(file) ==
    /\ cfgfile = file
    /\ config = [ loaded |-> TRUE, host |-> file.host, port |-> file.port,
                  unit_id |-> file.unit_id, registers |-> file.registers,
                  home_position |-> file.home_position,
                  cone_positions |-> file.cone_positions ]
    /\ rcs = "bound"
    /\ handle = "connected"
    /\ connects = 1
    /\ call = [ c \in Callers |-> Idle ]
    /\ wire = << >>
    /\ prev = NoPrev
    /\ main = MainOff

CompleteFile ==
    [ sections |-> TRUE, host |-> "rcs.local", port |-> 502, unit_id |-> 1,
      registers |-> FullRegisters, home_position |-> << Half, MinusOne, Far >>,
      cone_positions |-> Cones ]

InitCodec ==
    /\ mode = "codec"
    /\ Constructed(CompleteFile)
    /\ faults = 0

\* One float written to one of the target registers.
CodecCall(c) ==
    /\ mode = "codec"
    /\ call[c].st = "idle"
    /\ \E reg \in {"target_x", "target_y", "target_z"}, v \in F32Samples :
         Invoke(c, "_write_float", << reg, v >>)
    /\ UNCHANGED << mode, cfgfile, config, rcs, handle, connects, faults, main >>

NextCodec ==
    \/ \E c \in Active : CodecCall(c)
    \/ \E c \in Active : WriteFloatStep(c)
    \/ \E c \in Active : ReturnStep(c)

SpecCodec == InitCodec /\ [][NextCodec]_vars

\* ------------------------------------- two callers sharing one client

\* The pulse commands, as two callers of one client issue them.
ThreadCommands ==
    { [ fn |-> "reset_errors", args |-> << >> ] }
    \cup { [ fn |-> "start_program", args |-> << p >> ] : p \in ProgramIds }

\* The transport answers every request here: the subject is the order of the
\* requests of two callers, not their failure.
InitThreads ==
    /\ mode = "threads"
    /\ Constructed(CompleteFile)
    /\ faults = MaxFaults

\* A client whose methods took a lock for their whole body: a caller enters
\* only while no other caller is inside one.
ThreadCall_locked(c) ==
    /\ mode = "threads"
    /\ rcs = "bound"
    /\ \A d \in Callers : ~Running(d)
    /\ \E cmd \in ThreadCommands : Invoke(c, cmd.fn, cmd.args)
    /\ UNCHANGED << mode, cfgfile, config, rcs, handle, connects, faults, main >>

\* A caller enters a method: the class holds no lock and the methods take
\* none, so nothing but the caller's own previous call has to have ended.
ThreadCall(c) ==
    /\ mode = "threads"
    /\ rcs = "bound"
    /\ ~Running(c)
    /\ \E cmd \in ThreadCommands : Invoke(c, cmd.fn, cmd.args)
    /\ UNCHANGED << mode, cfgfile, config, rcs, handle, connects, faults, main >>

NextThreads ==
    \/ \E c \in Active : ThreadCall(c)
    \/ \E c \in Active : WriteIntStep(c)
    \/ \E c \in Active : SleepStep(c)
    \/ \E c \in Active : ReturnStep(c)

SpecThreads == InitThreads /\ [][NextThreads]_vars

\* ------------------------------------------------------------- properties

Addr(name) == FullRegisters[name]

\* Request e writes the words vals to the register called name.
IsWrite(e, name, vals) ==
    /\ e.op \in {"write_register", "write_registers"}
    /\ e.addr = Addr(name)
    /\ e.vals = vals

\* The operation, address and words of each request of a log.
Writes(L) ==
    [ i \in 1..Len(L) |->
        [ op |-> L[i].op, addr |-> L[i].addr, vals |-> L[i].vals ] ]

\* C1: whenever start_program(p) has written 1 to the start_program register,
\* the same call has written p to program_number earlier.
C1_NumberBeforeStart ==
    \A c \in Callers :
        LET L == Log(c) IN
        \A i \in 1..Len(L) :
            (L[i].by.fn = "start_program" /\ IsWrite(L[i], "start_program", <<1>>))
              => \E j \in 1..(i - 1) :
                    /\ L[j].by.fn = "start_program"
                    /\ L[j].op = "write_register"
                    /\ IsWrite(L[j], "program_number", L[i].by.args)

\* A start_program(2) that has written the trigger high.
C1_Witness ==
    \E c \in Callers : \E i \in 1..Len(Log(c)) :
        /\ Log(c)[i].by.fn = "start_program"
        /\ Log(c)[i].by.args = <<2>>
        /\ IsWrite(Log(c)[i], "start_program", <<1>>)

\* The last request of log L that addresses the register called name, or 0.
LastOn(L, name) ==
    LET at == { i \in 1..Len(L) : L[i].addr = Addr(name) }
    IN  IF at = {} THEN 0 ELSE CHOOSE i \in at : \A j \in at : j <= i

\* C2: a reset_errors or start_program that has ended, having written 1 to its
\* trigger register, has 0 as its last write to that register.
C2_PulseReleased ==
    \A c \in Callers : \A trig \in {"reset_errors", "start_program"} :
        LET L == Log(c) IN
        (Finished(c) /\ \E i \in 1..Len(L) : IsWrite(L[i], trig, <<1>>))
          => IsWrite(L[LastOn(L, trig)], trig, <<0>>)

\* C3: a move_to_xyz(x, y, z) that has returned has issued the writes of x, y
\* and z to target_x, target_y and target_z, then program_number := 1,
\* start_program := 1 and start_program := 0, and nothing else; and at any
\* point of a move_to_xyz the trigger is written high only after the three
\* target writes.
C3_MoveSequence ==
    \A c \in Callers :
        LET L == Log(c)
            a == call[c].top.args
        IN  call[c].top.fn = "move_to_xyz" =>
              /\ call[c].st = "ok" =>
                   Writes(L) =
                     << [ op |-> "write_registers", addr |-> Addr("target_x"),
                          vals |-> EncodeFloat32(a[1]) ],
                        [ op |-> "write_registers", addr |-> Addr("target_y"),
                          vals |-> EncodeFloat32(a[2]) ],
                        [ op |-> "write_registers", addr |-> Addr("target_z"),
                          vals |-> EncodeFloat32(a[3]) ],
                        [ op |-> "write_register", addr |-> Addr("program_number"),
                          vals |-> <<1>> ],
                        [ op |-> "write_register", addr |-> Addr("start_program"),
                          vals |-> <<1>> ],
                        [ op |-> "write_register", addr |-> Addr("start_program"),
                          vals |-> <<0>> ] >>
              /\ \A i \in 1..Len(L) :
                   IsWrite(L[i], "start_program", <<1>>) =>
                     /\ i > 3
                     /\ IsWrite(L[1], "target_x", EncodeFloat32(a[1]))
                     /\ IsWrite(L[2], "target_y", EncodeFloat32(a[2]))
                     /\ IsWrite(L[3], "target_z", EncodeFloat32(a[3]))

\* A move_to_xyz that has returned.
C3_Witness ==
    \E c \in Callers :
        /\ call[c].top.fn = "move_to_xyz"
        /\ call[c].st = "ok"
        /\ Len(Log(c)) > 0

\* The command that has just ended and the one that ended before it are a
\* go_home and a move_to_xyz to the configured home position, in either order.
HomePair(c) ==
    /\ Finished(c)
    /\ config.loaded
    /\ \/ /\ call[c].top.fn = "go_home"
          /\ prev.fn = "move_to_xyz"
          /\ prev.args = config.home_position
       \/ /\ prev.fn = "go_home"
          /\ call[c].top.fn = "move_to_xyz"
          /\ call[c].top.args = config.home_position

\* C4: go_home and move_to_xyz(home position) issue the same requests: request
\* for request as far as both got, and all of them when both returned.
C4_GoHomeAsMove ==
    \A c \in Callers :
        HomePair(c) =>
            LET W == Writes(Log(c)) IN
            /\ \A i \in 1..Len(W) : i <= Len(prev.writes) => W[i] = prev.writes[i]
            /\ (call[c].st = "ok" /\ prev.st = "ok") => W = prev.writes

\* A go_home that returned, followed by a move_to_xyz(home) that returned.
C4_Witness ==
    \E c \in Callers :
        /\ HomePair(c)
        /\ prev.fn = "go_home"
        /\ prev.st = "ok"
        /\ call[c].st = "ok"
        /\ Len(prev.writes) > 0

\* C5: with a register map that lacks a name the commands use, construction
\* fails before any I/O: no connect attempt, no request, no client.
C5_MissingNameFailsConstruction ==
    (\E n \in RegNames : n \notin DOMAIN cfgfile.registers)
      => /\ connects = 0
         /\ rcs = "unbound"
         /\ wire = << >>

\* C6: a write the controller rejected is the last request of its command, and
\* the command does not return normally.
C6_RejectedWriteFailsCommand ==
    \A c \in Callers :
        LET L == Log(c) IN
        \A i \in 1..Len(L) :
            (L[i].op # "read_holding_registers" /\ L[i].out = "exception_response")
              => /\ i = Len(L)
                 /\ call[c].st # "ok"

\* C7: a read of address a answered by a Modbus exception response ends the
\* command with a ValueError that carries a, is not what a raised or returned
\* transport failure of the same read ends in, and returns no value.
C7_ReadFailure ==
    \A c \in Callers :
        LET L == Log(c) IN
        \A i \in 1..Len(L) :
            L[i].op = "read_holding_registers" =>
              /\ L[i].out = "exception_response" =>
                   /\ call[c].st = "failed"
                   /\ call[c].err.type = "ValueError"
                   /\ call[c].err.addr = L[i].addr
                   /\ call[c].err.detail = "exception_response"
                   /\ call[c].ret = NoReturn
              /\ L[i].out \in {"io_error", "raise"} =>
                   /\ call[c].st = "failed"
                   /\ call[c].err # ValueError(L[i].addr, "exception_response")
                   /\ L[i].out = "raise" => call[c].err.type # "ValueError"

\* A get_status whose read was answered by an exception response.
C7_Witness ==
    \E c \in Callers : \E i \in 1..Len(Log(c)) :
        /\ Log(c)[i].op = "read_holding_registers"
        /\ Log(c)[i].out = "exception_response"
        /\ call[c].top.fn = "get_status"

\* C8: close() always ends without an error: every close() call returns,
\* a second one included, and after a connection attempt, failed or not, the
\* close in main's finally block does not raise out of main.
C8_CloseNeverFails ==
    /\ \A c \in Callers :
         (call[c].top.fn = "close" /\ Finished(c)) => call[c].st = "ok"
    /\ connects > 0 => main.pc # "crashed"

\* C9: no request is put to the handle after close() has been called on it.
C9_NoUseAfterClose ==
    \A i \in 1..Len(wire) : ~wire[i].closed

\* C10: construction makes at most one connection attempt and does not hang;
\* having made it, it ends connected with the client bound, or with a
\* ConnectionError carrying host and port and no client; and while there is
\* no client, no request has been issued.
C10_ConstructionEnds ==
    /\ connects <= 1
    /\ rcs = "unbound" => wire = << >>
    /\ \A c \in Callers :
         call[c].top.fn = "__init__" =>
           /\ Running(c) => ENABLED Next
           /\ (Finished(c) /\ connects > 0) =>
                \/ /\ call[c].st = "ok"
                   /\ handle = "connected"
                   /\ rcs = "bound"
                \/ /\ call[c].st = "failed"
                   /\ call[c].err = ConnectionError(cfgfile.host, cfgfile.port)
                   /\ handle # "connected"
                   /\ rcs = "unbound"

\* A construction that failed to connect.
C10_Witness ==
    \E c \in Callers :
        /\ call[c].top.fn = "__init__"
        /\ call[c].st = "failed"
        /\ call[c].err.type = "ConnectionError"

\* The low and the high 16 bits of the pattern s * 2^31 + e * 2^23 + m.
Low16(v) == v.m % 65536

High16(v) == v.s * 32768 + v.e * 128 + v.m \div 65536

\* C11: a float write is one write_registers request at the given address
\* carrying exactly two words: the low 16 bits of the value's IEEE-754 pattern
\* first, the high 16 bits second.
C11_FloatWords ==
    \A c \in Callers :
        LET L == Log(c)
            a == call[c].top.args
        IN  call[c].top.fn = "_write_float" =>
              /\ Len(L) <= 1
              /\ Finished(c) => Len(L) = 1
              /\ \A i \in 1..Len(L) :
                   /\ L[i].op = "write_registers"
                   /\ L[i].addr = Addr(a[1])
                   /\ Len(L[i].vals) = 2
                   /\ L[i].vals[1] = Low16(a[2])
                   /\ L[i].vals[2] = High16(a[2])
                   /\ \A k \in 1..2 : L[i].vals[k] \in 0..65535

\* A write, answered normally, of a negative value whose two words differ.
C11_Witness ==
    \E c \in Callers :
        /\ call[c].top.fn = "_write_float"
        /\ call[c].st = "ok"
        /\ call[c].top.args[2] = F32(1, 117, 201327)
        /\ Len(Log(c)) = 1
        /\ Log(c)[1].vals = << 4719, 47747 >>

\* C12: decoding the two words a float write carries, with the same byte and
\* word order, gives the written value back, for every value.
C12_RoundTrip ==
    \A c \in Callers :
        LET L == Log(c) IN
        call[c].top.fn = "_write_float" =>
            \A i \in 1..Len(L) : DecodeFloat32(L[i].vals) = call[c].top.args[2]

\* The fractional value 0.001 has been written, and its words decode to it.
C12_Witness ==
    \E c \in Callers :
        /\ call[c].top.fn = "_write_float"
        /\ Len(Log(c)) = 1
        /\ call[c].top.args[2] = Milli
        /\ DecodeFloat32(Log(c)[1].vals) = Milli

\* The binary numerals of the status words, written out.
StandardBinary(n) ==
    CASE n = 0     -> "0b0"
      [] n = 1     -> "0b1"
      [] n = 6     -> "0b110"
      [] n = 255   -> "0b11111111"
      [] n = 65535 -> "0b1111111111111111"

\* C13: get_status issues one read of status_word and no write; when it
\* returns, the decimal field is the word read and the binary field is that
\* word's binary numeral.
C13_StatusFields ==
    \A c \in Callers :
        LET L == Log(c) IN
        call[c].top.fn = "get_status" =>
          /\ Len(L) <= 1
          /\ \A i \in 1..Len(L) :
               /\ L[i].op = "read_holding_registers"
               /\ L[i].addr = Addr("status_word")
          /\ call[c].st = "ok" =>
               /\ Len(L) = 1
               /\ L[1].out = "ok"
               /\ call[c].ret.status_word = L[1].vals[1]
               /\ call[c].ret.binary = StandardBinary(L[1].vals[1])

\* A get_status that returned the status word 6.
C13_Witness ==
    \E c \in Callers :
        /\ call[c].top.fn = "get_status"
        /\ call[c].st = "ok"
        /\ call[c].ret = [ status_word |-> 6, binary |-> "0b110" ]

\* C14: no request of any command ever writes anything but 1 to the
\* enable_drives register, and enable_drives itself issues that one write and
\* nothing else.
C14_EnableHeld ==
    /\ \A i \in 1..Len(wire) :
         wire[i].addr = Addr("enable_drives") =>
           /\ wire[i].op = "write_register"
           /\ wire[i].vals = <<1>>
    /\ \A c \in Callers :
         call[c].top.fn = "enable_drives" =>
           /\ Len(Log(c)) <= 1
           /\ call[c].st = "ok" =>
                Writes(Log(c)) = << [ op |-> "write_register",
                                      addr |-> Addr("enable_drives"),
                                      vals |-> <<1>> ] >>

\* An enable_drives that returned.
C14_Witness ==
    \E c \in Callers :
        /\ call[c].top.fn = "enable_drives"
        /\ call[c].st = "ok"
        /\ Len(Log(c)) = 1

\* The prompts of a calibration over the list cones, in order.
PromptsFor(cones) == [ i \in 1..Len(cones) |-> [ cone |-> i, point |-> cones[i] ] ]

\* C15: calibrate_base issues no request at all, whatever the list of cones and
\* whatever the operator enters; the loaded calibration data stay what the file
\* holds; the prompts shown are the configured points in list order, one each,
\* and all of them when it returns.
C15_CalibrationOnlyPrompts ==
    \A c \in Callers :
        call[c].top.fn = "calibrate_base" =>
            LET want == PromptsFor(cfgfile.cone_positions)
                got == call[c].console
            IN  /\ Log(c) = << >>
                /\ config.cone_positions = cfgfile.cone_positions
                /\ config.home_position = cfgfile.home_position
                /\ Len(got) <= Len(want)
                /\ \A i \in 1..Len(got) : got[i] = want[i]
                /\ call[c].st = "ok" => got = want

\* A calibration over three cones that returned.
C15_Witness ==
    \E c \in Callers :
        /\ call[c].top.fn = "calibrate_base"
        /\ call[c].st = "ok"
        /\ Len(call[c].console) = Len(Cones)
        /\ Len(Cones) > 2

\* C17: reset_errors only ever issues write_register requests on the
\* reset_errors register, the second one after the first has come back; when it
\* returns it has issued exactly two: 1, then 0.
C17_ResetPulse ==
    \A c \in Callers :
        LET L == Log(c) IN
        call[c].top.fn = "reset_errors" =>
          /\ \A i \in 1..Len(L) :
               /\ L[i].op = "write_register"
               /\ L[i].addr = Addr("reset_errors")
               /\ i < Len(L) => L[i].out # "raise"
          /\ call[c].st = "ok" =>
               Writes(L) =
                 << [ op |-> "write_register", addr |-> Addr("reset_errors"),
                      vals |-> <<1>> ],
                    [ op |-> "write_register", addr |-> Addr("reset_errors"),
                      vals |-> <<0>> ] >>

\* A reset_errors that returned.
C17_Witness ==
    \E c \in Callers :
        /\ call[c].top.fn = "reset_errors"
        /\ call[c].st = "ok"
        /\ Len(Log(c)) = 2

\* C18: once a write of target_x, target_y or target_z has failed (raised, or
\* was answered by an error result), the same move_to_xyz writes neither
\* program_number nor 1 to start_program.
C18_NoStartAfterFailedTarget ==
    \A c \in Callers :
        LET L == Log(c) IN
        \A i \in 1..Len(L) :
            (L[i].by.fn = "move_to_xyz" /\ L[i].out # "ok")
              => \A j \in (i + 1)..Len(L) :
                    /\ L[j].addr # Addr("program_number")
                    /\ ~IsWrite(L[j], "start_program", <<1>>)

\* What a step of main with a constructed client may do: it issues a call only
\* as the next command of the sequence after the call before has returned
\* (construction before the first command), or as close() from the finally
\* clause; and once close() has been issued nothing else is, neither a call
\* nor a request.
C19_MainStep ==
    (mode = "main" /\ rcs = "bound") =>
      LET issues == call[1].st # "running" /\ call'[1].st = "running" IN
      /\ issues =>
           \/ /\ main.pc = "try"
              /\ call'[1].top.fn = MainSequence[main.i]
              /\ call[1].st = "ok"
              /\ call[1].top.fn = IF main.i = 1 THEN "__init__"
                                  ELSE MainSequence[main.i - 1]
           \/ /\ main.pc = "finally"
              /\ call'[1].top.fn = "close"
              /\ call[1].top.fn # "close"
      /\ call[1].top.fn = "close" => (~issues /\ wire' = wire)

\* Where main with a constructed client ends: close() was its last call, and
\* no request of its run met a closed handle.
C19_MainEnd ==
    (mode = "main" /\ rcs = "bound") =>
      /\ main.pc \in {"closing", "done", "crashed"} => call[1].top.fn = "close"
      /\ main.pc = "done" => (call[1].st = "ok" /\ handle = "closed")
      /\ \A i \in 1..Len(wire) : ~wire[i].closed

\* C19: in main with the client constructed, the commands are issued in the
\* order reset_errors, enable_drives, go_home, each only after the one before
\* has returned; a command that raised is followed by close() alone; close()
\* is called exactly once, as the last call; no request follows it.
C19_MainOrder == [] C19_MainEnd /\ [][C19_MainStep]_vars

\* main has ended after enable_drives raised and close() was called.
C19_Witness ==
    /\ mode = "main"
    /\ main.pc = "done"
    /\ prev.fn = "enable_drives"
    /\ prev.st = "failed"
    /\ call[1].top.fn = "close"

\* Caller b's write lies on the wire between caller a's 1 and 0 on a trigger.
MidPulseWrite(a, b) ==
    \E i, j, k \in 1..Len(wire) : \E trig \in {"reset_errors", "start_program"} :
        /\ i < j /\ j < k
        /\ wire[i].c = a /\ IsWrite(wire[i], trig, <<1>>)
        /\ wire[k].c = a /\ IsWrite(wire[k], trig, <<0>>)
        /\ \A n \in (i + 1)..(k - 1) : wire[n].c = a => wire[n].addr # Addr(trig)
        /\ wire[j].c = b /\ wire[j].op = "write_register"

\* Caller a's start_program(p) writes 1 to start_program while the last write
\* to program_number is caller b's, with another program id.
WrongProgramStarted(a, b) ==
    \E i \in 1..Len(wire) :
        /\ wire[i].c = a
        /\ wire[i].by.fn = "start_program"
        /\ IsWrite(wire[i], "start_program", <<1>>)
        /\ LET n == LastOn(SubSeq(wire, 1, i - 1), "program_number")
           IN  /\ n > 0
               /\ wire[n].c = b
               /\ wire[n].vals # wire[i].by.args

\* C16: the client does not serialize its callers: a caller whose own call has
\* ended can enter a method while another caller is inside one, and a caller
\* at a register write can issue it whatever the other is doing.
C16_NotSerialized ==
    \A a, b \in Callers :
        (a # b /\ mode = "threads" /\ Running(a)) =>
          /\ ~Running(b) => ENABLED ThreadCall(b)
          /\ AtInstr(b, "write_int") => ENABLED WriteIntStep(b)

\* Both interleavings have happened: a write of the other caller between one
\* caller's trigger 1 and 0, and a start with the other caller's program id in
\* program_number.
C16_Witness ==
    \E a, b \in Callers :
        /\ a # b
        /\ MidPulseWrite(a, b)
        /\ WrongProgramStarted(a, b)

====
